---------------------------- MODULE Spec2Model ----------------------------
(***************************************************************************)
(* A model of src/utils/polygon.h (namespace cura): PolygonRef / Polygon   *)
(* (one closed loop of integer points) and Polygons (an ordered collection *)
(* of loops), with the queries and clean-up operations defined on them.    *)
(*                                                                         *)
(* A Point is a record [X, Y] of integers.  A loop (ClipperLib::Path) is a *)
(* sequence of Points; C++ index i is TLA+ index i + 1.  A shape           *)
(* (ClipperLib::Paths) is a sequence of loops.                             *)
(*                                                                         *)
(* The program is single-threaded and every operation is synchronous, so   *)
(* one call is one action.  A behaviour builds an object with add() and    *)
(* then runs one call on it; `call` keeps the arguments of that call and a *)
(* snapshot of the object when it was made, `ret` what the call returned.  *)
(* (A copied Polygon is followed through several calls.)                   *)
(***************************************************************************)
EXTENDS Integers, Sequences, FiniteSets, TLC

VARIABLES
    pc,             \* "build" while the object is filled, then how the call ended
    poly,           \* the loop a PolygonRef points at (*this->polygon)
    polygons,       \* the loops of a Polygons object (this->polygons)
    to_be_removed,  \* the second shape handed to Polygons::remove
    call,           \* the call that ran: its arguments and the state it started from
    ret,            \* what the call returned or wrote to its result parameter
    copy,           \* a Polygon constructed from poly: its member poly and its base's pointer
    tree,           \* the ClipperLib::PolyTree handed to _processPolyTreeNode
    boxes           \* the AABB objects constructed so far

vars == <<pc, poly, polygons, to_be_removed, call, ret, copy, tree, boxes>>

(***************************************************************************)
(* Bounds of the model.                                                    *)
(***************************************************************************)
MaxLen == 4

\* The coordinates loops and query points are drawn from.
Coords == 0 .. 2

Points == [X : Coords, Y : Coords]

NoCall == [op |-> "none"]

\* No Polygon has been constructed from poly.
NoCopy == [polygon |-> "none", poly |-> <<>>]

(***************************************************************************)
(* Point arithmetic (intpoint.h is not among the sources; these are the    *)
(* integer vector operations polygon.h uses).                              *)
(***************************************************************************)
Pt(x, y) == [X |-> x, Y |-> y]

PSub(a, b) == Pt(a.X - b.X, a.Y - b.Y)

dot(a, b) == a.X * b.X + a.Y * b.Y

vSize2(a) == a.X * a.X + a.Y * a.Y

Min(a, b) == IF a < b THEN a ELSE b

Max(a, b) == IF a > b THEN a ELSE b

\* PolygonRef::back(): the last point of a non-empty loop.
back(path) == path[Len(path)]

(***************************************************************************)
(* PolygonRef::inside                                                      *)
(***************************************************************************)

\* InsideFalling with the closed end of the Y test at the top of the edge, which
\* is not the end the rising branch closes.
InsideFallingClosedTop(p0, p1, p) ==
    LET pdY == p1.Y - p0.Y IN
    IF p1.Y < p.Y /\ p0.Y >= p.Y
    THEN LET dx == (p1.X - p0.X) * (p1.Y - p.Y) - (p1.X - p.X) * pdY IN
         IF dx = 0 THEN "border" ELSE IF dx > 0 THEN "cross" ELSE "none"
    ELSE "none"

\* The falling branch (pdY < 0): "border", "cross" or "none".
InsideFalling(p0, p1, p) ==
    LET pdY == p1.Y - p0.Y IN
    IF p1.Y <= p.Y /\ p0.Y > p.Y
    THEN LET dx == (p1.X - p0.X) * (p1.Y - p.Y) - (p1.X - p.X) * pdY IN
         IF dx = 0 THEN "border" ELSE IF dx > 0 THEN "cross" ELSE "none"
    ELSE "none"

\* The rising branch (pdY >= 0, p.Y >= p0.Y, p.Y < p1.Y).
InsideRising(p0, p1, p) ==
    LET pdY == p1.Y - p0.Y
        dx  == (p1.X - p0.X) * (p.Y - p0.Y) - (p.X - p0.X) * pdY IN
    IF dx = 0 THEN "border" ELSE IF dx > 0 THEN "cross" ELSE "none"

\* InsideLevel without the test for a horizontal edge.
InsideLevelVertexOnly(p0, p1, p) ==
    IF p.X = p1.X THEN "border" ELSE "none"

\* The special cases at p.Y == p1.Y: p is p1, or lies on a horizontal edge.
InsideLevel(p0, p1, p) ==
    LET pdY == p1.Y - p0.Y IN
    IF p.X = p1.X \/ (pdY = 0 /\ Min(p0.X, p1.X) <= p.X)
    THEN "border"
    ELSE "none"

\* The body of the loop over the edges p0 -> p1.
InsideEdge(p0, p1, p) ==
    IF Max(p0.X, p1.X) >= p.X
    THEN LET pdY == p1.Y - p0.Y IN
         IF pdY < 0
         THEN InsideFalling(p0, p1, p)
         ELSE IF p.Y >= p0.Y
              THEN IF p.Y < p1.Y
                   THEN InsideRising(p0, p1, p)
                   ELSE IF p.Y = p1.Y
                        THEN InsideLevel(p0, p1, p)
                        ELSE "none"
              ELSE "none"
    ELSE "none"

RECURSIVE InsideLoop(_, _, _, _, _, _)
InsideLoop(path, p, border_result, n, p0, crossings) ==
    IF n > Len(path)
    THEN (crossings % 2) = 1
    ELSE LET p1 == path[n]
             e  == InsideEdge(p0, p1, p) IN
         IF e = "border"
         THEN border_result
         ELSE InsideLoop(path, p, border_result, n + 1, p1,
                         IF e = "cross" THEN crossings + 1 ELSE crossings)

inside(path, p, border_result) ==
    IF Len(path) < 1
    THEN FALSE
    ELSE InsideLoop(path, p, border_result, 1, back(path), 0)

(***************************************************************************)
(* Building a loop, and the calls on it.                                   *)
(***************************************************************************)

\* PolygonRef::add
Add(q) ==
    /\ pc = "build"
    /\ Len(poly) < MaxLen
    /\ poly' = Append(poly, q)
    /\ UNCHANGED <<pc, polygons, to_be_removed, call, ret, copy, tree, boxes>>

CallInside(p, border_result) ==
    /\ pc = "build"
    /\ call' = [op |-> "inside", p |-> p, border_result |-> border_result]
    /\ ret' = inside(poly, p, border_result)
    /\ pc' = "done"
    /\ UNCHANGED <<poly, polygons, to_be_removed, copy, tree, boxes>>

Init ==
    /\ pc = "build"
    /\ poly = <<>>
    /\ polygons = <<>>
    /\ to_be_removed = <<>>
    /\ call = NoCall
    /\ ret = FALSE
    /\ copy = NoCopy
    /\ tree = <<>>
    /\ boxes = <<>>

NextInside ==
    \/ \E q \in Points : Add(q)
    \/ \E p \in Points, border_result \in BOOLEAN : CallInside(p, border_result)

SpecInside == Init /\ [][NextInside]_vars

(***************************************************************************)
(* Geometry the claims about inside() are stated in.                       *)
(***************************************************************************)

\* Twice the signed area of the triangle a, b, c.
Cross(a, b, c) == (b.X - a.X) * (c.Y - a.Y) - (b.Y - a.Y) * (c.X - a.X)

\* q lies on the closed segment a-b.
OnSegment(a, b, q) ==
    /\ Cross(a, b, q) = 0
    /\ Min(a.X, b.X) <= q.X /\ q.X <= Max(a.X, b.X)
    /\ Min(a.Y, b.Y) <= q.Y /\ q.Y <= Max(a.Y, b.Y)

\* The point after index i of a closed loop.
Succ(path, i) == path[(i % Len(path)) + 1]

\* The point before index i of a closed loop.
Pred(path, i) == path[((i + Len(path) - 2) % Len(path)) + 1]

\* q lies on the boundary of the closed loop: on an edge, the wrap edge included.
OnBoundary(path, q) ==
    \E i \in 1 .. Len(path) : OnSegment(path[i], Succ(path, i), q)

\* The closed segments a-b and c-d have a point in common.
SegmentsMeet(a, b, c, d) ==
    \/ /\ Cross(c, d, a) * Cross(c, d, b) < 0
       /\ Cross(a, b, c) * Cross(a, b, d) < 0
    \/ OnSegment(c, d, a) \/ OnSegment(c, d, b)
    \/ OnSegment(a, b, c) \/ OnSegment(a, b, d)

\* A simple loop: distinct vertices, consecutive edges meet only in the vertex
\* they share, and no other two edges meet at all.
IsSimple(path) ==
    LET n == Len(path) IN
    /\ n >= 3
    /\ \A i, j \in 1 .. n : i < j => path[i] # path[j]
    /\ \A i, j \in 1 .. n :
          i < j =>
             LET a == path[i]
                 b == Succ(path, i)
                 c == path[j]
                 d == Succ(path, j) IN
             IF j = i + 1
             THEN ~OnSegment(a, b, d) /\ ~OnSegment(c, d, a)
             ELSE IF i = 1 /\ j = n
                  THEN ~OnSegment(a, b, c) /\ ~OnSegment(c, d, b)
                  ELSE ~SegmentsMeet(a, b, c, d)

\* The quadrant of v as seen from q (v # q), counted counter-clockwise.
Quadrant(q, v) ==
    LET x == v.X - q.X
        y == v.Y - q.Y IN
    IF x > 0 /\ y >= 0 THEN 0
    ELSE IF x <= 0 /\ y > 0 THEN 1
    ELSE IF x < 0 /\ y <= 0 THEN 2
    ELSE 3

\* Quarter turns the edge a -> b makes around q (q not on the edge).
QuarterTurns(q, a, b) ==
    LET d == (Quadrant(q, b) - Quadrant(q, a) + 4) % 4 IN
    IF d = 0 THEN 0
    ELSE IF d = 1 THEN 1
    ELSE IF d = 3 THEN -1
    ELSE IF Cross(q, a, b) > 0 THEN 2 ELSE -2

RECURSIVE TurnSum(_, _, _)
TurnSum(path, q, i) ==
    IF i > Len(path)
    THEN 0
    ELSE QuarterTurns(q, path[i], Succ(path, i)) + TurnSum(path, q, i + 1)

\* How often the loop winds around q (q not on its boundary).
WindingNumber(path, q) == TurnSum(path, q, 1) \div 4

\* q is strictly inside the simple loop.
StrictlyInside(path, q) == WindingNumber(path, q) # 0

\* The loop started from its vertex k + 1, and the loop walked backwards.
Rotate(path, k) == [i \in 1 .. Len(path) |-> path[((i - 1 + k) % Len(path)) + 1]]

Reverse(path) == [i \in 1 .. Len(path) |-> path[Len(path) + 1 - i]]

InsideDone == pc = "done" /\ call.op = "inside"

(***************************************************************************)
(* C1: inside(p, border_result) returns border_result for every loop with  *)
(* at least one point and every p on the loop's boundary: p a vertex, or p *)
(* on an edge, the wrap edge and horizontal edges included, for both       *)
(* values of border_result.                                                *)
(***************************************************************************)
C1_BorderResult ==
    (InsideDone /\ Len(poly) >= 1 /\ OnBoundary(poly, call.p))
        => ret = call.border_result

\* p in the middle of a horizontal wrap edge of a triangle, border_result TRUE.
C1_Witness ==
    /\ InsideDone
    /\ Len(poly) = 3
    /\ call.border_result
    /\ ret
    /\ poly[3].Y = poly[1].Y /\ poly[2].Y # poly[1].Y
    /\ call.p.Y = poly[1].Y
    /\ Min(poly[1].X, poly[3].X) < call.p.X
    /\ call.p.X < Max(poly[1].X, poly[3].X)

(***************************************************************************)
(* C2: for a simple loop of at least 3 points and p not on its boundary,   *)
(* inside(p, border_result) is TRUE iff p is strictly inside the loop, and *)
(* the answer is the same for the other border_result, for the loop walked *)
(* in the other direction and for the loop started from any other vertex.  *)
(***************************************************************************)
C2_InsideIffStrictlyInside ==
    (InsideDone /\ IsSimple(poly) /\ ~OnBoundary(poly, call.p))
        => /\ ret = StrictlyInside(poly, call.p)
           /\ ret = inside(poly, call.p, ~call.border_result)
           /\ ret = inside(Reverse(poly), call.p, call.border_result)
           /\ \A k \in 1 .. Len(poly) - 1 :
                 ret = inside(Rotate(poly, k), call.p, call.border_result)

\* The ray from p runs through a vertex between two rising (or two falling)
\* edges, which must count once: p is inside.
C2_Witness ==
    /\ InsideDone
    /\ IsSimple(poly)
    /\ ~OnBoundary(poly, call.p)
    /\ ret
    /\ \E i \in 1 .. Len(poly) :
          LET a == Pred(poly, i)
              v == poly[i]
              b == Succ(poly, i) IN
          /\ v.Y = call.p.Y /\ v.X > call.p.X
          /\ (a.Y - v.Y) * (b.Y - v.Y) < 0

\* The ray from p runs through a top or bottom vertex, which must count zero or
\* two times: p is outside.
C2_WitnessPeak ==
    /\ InsideDone
    /\ IsSimple(poly)
    /\ ~OnBoundary(poly, call.p)
    /\ ~ret
    /\ \E i \in 1 .. Len(poly) :
          LET a == Pred(poly, i)
              v == poly[i]
              b == Succ(poly, i) IN
          /\ v.Y = call.p.Y /\ v.X > call.p.X
          /\ (a.Y - v.Y) * (b.Y - v.Y) > 0

(***************************************************************************)
(* PolygonRef::simplify                                                    *)
(*                                                                         *)
(* `last` is declared Point& last = thiss[0]: a reference to point 0 of    *)
(* the source loop, so reading `last` reads src[1] and `last = ...` writes *)
(* it.  `next` at the final index is thiss[0] too.                         *)
(***************************************************************************)

\* The largest r with r * r <= n.
RECURSIVE SqrtFrom(_, _)
SqrtFrom(n, r) == IF (r + 1) * (r + 1) > n THEN r ELSE SqrtFrom(n, r + 1)

ISqrt(n) == SqrtFrom(n, 0)

\* static_cast<int64_t>(square(vSizeMM(a) + vSizeMM(b)) * 1000 * 1000): the
\* square of the sum of the two lengths, computed in doubles and truncated.  The
\* real value is |a|^2 + |b|^2 + sqrt(4 |a|^2 |b|^2); where that is an integer
\* above 1 the rounded double may fall just below it, and truncates to one less.
SquareOfLengthSum(a, b) ==
    LET A == vSize2(a)
        B == vSize2(b)
        r == ISqrt(4 * A * B)
        e == A + B + r IN
    IF r * r = 4 * A * B /\ e > 1 THEN {e, e - 1} ELSE {e}

\* What an int64 division by zero leaves in the quotient where it does not trap.
DivByZeroQuotients == {0, -1}

\* What the int64 division num / den can do: trap, or leave the quotient q.  A
\* division by zero is undefined behaviour (ub).
Quotients(num, den) ==
    IF den = 0
    THEN {[trap |-> TRUE, ub |-> TRUE, q |-> 0]}
         \cup {[trap |-> FALSE, ub |-> TRUE, q |-> z] : z \in DivByZeroQuotients}
    ELSE {[trap |-> FALSE, ub |-> FALSE, q |-> num \div den]}

\* One pass of the loop body at C++ index poly_idx, from the walk's state w:
\* the set of states it can leave, [src, result, trap, ub].
SimplifyStep(w, poly_idx, allowed_error_distance_squared) ==
    LET src  == w.src
        v    == src[poly_idx + 1]
        last == src[1]
        next == src[((poly_idx + 1) % Len(src)) + 1] IN
    IF vSize2(PSub(v, last)) < allowed_error_distance_squared
    THEN {w}
    ELSE { IF a2.trap
           THEN [w EXCEPT !.trap = TRUE, !.ub = TRUE]
           ELSE IF vSize2(PSub(next, v)) - a2.q < allowed_error_distance_squared
                THEN [w EXCEPT !.ub = w.ub \/ a2.ub]
                ELSE [src    |-> [src EXCEPT ![1] = v],
                      result |-> Append(w.result, v),
                      trap   |-> FALSE,
                      ub     |-> w.ub \/ a2.ub] :
           a2 \in UNION { Quotients(vSize2(PSub(next, v)) * vSize2(PSub(next, last)), den) :
                          den \in SquareOfLengthSum(PSub(next, last), PSub(v, last)) } }

\* The for loop from poly_idx on.
RECURSIVE SimplifyWalk(_, _, _)
SimplifyWalk(w, poly_idx, allowed_error_distance_squared) ==
    IF poly_idx >= Len(w.src)
    THEN {w}
    ELSE UNION { IF o.trap
                 THEN {o}
                 ELSE SimplifyWalk(o, poly_idx + 1, allowed_error_distance_squared) :
                 o \in SimplifyStep(w, poly_idx, allowed_error_distance_squared) }

\* SimplifyFinish without the test for a collapsed result.
SimplifyFinishAsWalked(w) ==
    [src |-> w.src, result |-> w.result, trap |-> w.trap, ub |-> w.ub,
     fallback |-> FALSE]

\* After the walk: a result of fewer than 3 points is cleared and refilled from
\* the source loop.  `fallback` records that this happened.
SimplifyFinish(w) ==
    IF ~w.trap /\ Len(w.result) < 3
    THEN [src |-> w.src, result |-> w.src, trap |-> FALSE, ub |-> w.ub,
          fallback |-> TRUE]
    ELSE [src |-> w.src, result |-> w.result, trap |-> w.trap, ub |-> w.ub,
          fallback |-> FALSE]

\* simplify(allowed_error_distance_squared, result): every state the call can
\* leave the source loop and the result loop in.
simplify(src, allowed_error_distance_squared, result) ==
    IF Len(src) < 4
    THEN {[src |-> src, result |-> result \o src, trap |-> FALSE, ub |-> FALSE,
           fallback |-> FALSE]}
    ELSE { SimplifyFinish(w) :
           w \in SimplifyWalk([src |-> src, result |-> Append(result, src[1]),
                               trap |-> FALSE, ub |-> FALSE],
                              1, allowed_error_distance_squared) }

\* The thresholds simplify is called with (squared distances on the grid are 0..8).
Thresholds == {0, 1, 2, 3, 5, 9}

\* Polygons::simplify hands each loop a fresh result loop (ret.newPoly()).
CallSimplify(allowed_error_distance_squared) ==
    /\ pc = "build"
    /\ \E o \in simplify(poly, allowed_error_distance_squared, <<>>) :
          /\ poly' = o.src
          /\ ret' = [result |-> o.result, fallback |-> o.fallback, ub |-> o.ub]
          /\ pc' = IF o.trap THEN "trapped" ELSE "done"
    /\ call' = [op |-> "simplify", before |-> poly,
                allowed_error_distance_squared |-> allowed_error_distance_squared]
    /\ UNCHANGED <<polygons, to_be_removed, copy, tree, boxes>>

NextSimplify ==
    \/ \E q \in Points : Add(q)
    \/ \E t \in Thresholds : CallSimplify(t)

SpecSimplify == Init /\ [][NextSimplify]_vars

SimplifyDone == pc = "done" /\ call.op = "simplify"

(***************************************************************************)
(* C3: simplify leaves its source loop as it was: after the call every     *)
(* point of the source loop, point 0 included, is what it was before.      *)
(* (Stated for the calls whose behaviour is defined: no division by zero.) *)
(***************************************************************************)
C3_SourceUnchanged == (SimplifyDone /\ ~ret.ub) => poly = call.before

\* A call that returns with the source loop changed only in point 0.
C3_Witness ==
    /\ SimplifyDone
    /\ ~ret.ub
    /\ poly # call.before
    /\ \A i \in 2 .. Len(poly) : poly[i] = call.before[i]

(***************************************************************************)
(* C4: when the walk over a loop of 4 or more points leaves fewer than 3   *)
(* points in the result, the result is replaced by the loop as it was when *)
(* simplify was called.                                                    *)
(* (Stated for the calls whose behaviour is defined: no division by zero.) *)
(***************************************************************************)
C4_FallbackIsOriginal ==
    (SimplifyDone /\ ~ret.ub /\ Len(call.before) >= 4 /\ ret.fallback)
        => ret.result = call.before

\* The fallback ran after the walk had emitted a point, and copied the loop
\* with that point in place of point 0.
C4_Witness ==
    /\ SimplifyDone
    /\ ~ret.ub
    /\ ret.fallback
    /\ ret.result # call.before
    /\ ret.result = poly

(***************************************************************************)
(* C5: whenever simplify into an empty result returns, a loop of at least  *)
(* 3 points has given a result of at least 3 points, and a loop of fewer   *)
(* than 4 points a result that is a copy of it.                            *)
(***************************************************************************)
C5_ResultSize ==
    SimplifyDone
        => /\ Len(call.before) >= 3 => Len(ret.result) >= 3
           /\ Len(call.before) < 4 => ret.result = call.before

\* The walk collapsed (fewer than 3 points) and the result still has 3 or more.
C5_Witness ==
    /\ SimplifyDone
    /\ ret.fallback
    /\ Len(call.before) >= 4
    /\ Len(ret.result) >= 3

\* A copy of a 3-point loop.
C5_WitnessCopy ==
    /\ SimplifyDone
    /\ Len(call.before) = 3
    /\ ret.result = call.before

(***************************************************************************)
(* PolygonRef::smooth                                                      *)
(***************************************************************************)

\* shorterThen(p0, len) of intpoint.h: the vector p0 is shorter than len (no
\* vector is shorter than a length of 0 or less).
shorterThen(p0, len) == len > 0 /\ vSize2(p0) < len * len

\* The for loop, as the original claim has it: after a short chord the current
\* point and the one after it are both left out.
RECURSIVE SmoothLoopDropNext(_, _, _, _)
SmoothLoopDropNext(path, remove_length, poly_idx, result) ==
    IF poly_idx >= Len(path)
    THEN result
    ELSE IF shorterThen(PSub(path[poly_idx], path[poly_idx + 1]), remove_length)
         THEN SmoothLoopDropNext(path, remove_length, poly_idx + 2, result)
         ELSE SmoothLoopDropNext(path, remove_length, poly_idx + 1,
                                 Append(result, path[poly_idx + 1]))

\* The for loop from C++ index poly_idx on (thiss[poly_idx] is path[poly_idx + 1]).
RECURSIVE SmoothLoop(_, _, _, _)
SmoothLoop(path, remove_length, poly_idx, result) ==
    IF poly_idx >= Len(path)
    THEN result
    ELSE IF shorterThen(PSub(path[poly_idx], path[poly_idx + 1]), remove_length)
         THEN SmoothLoop(path, remove_length, poly_idx + 2,
                         IF poly_idx + 1 < Len(path)
                         THEN Append(result, path[poly_idx + 2])
                         ELSE result)
         ELSE SmoothLoop(path, remove_length, poly_idx + 1,
                         Append(result, path[poly_idx + 1]))

smooth(path, remove_length, result) ==
    SmoothLoop(path, remove_length, 1,
               IF Len(path) > 0 THEN Append(result, path[1]) ELSE result)

\* The lengths smooth is called with (chords on the grid have squares 0..8).
RemoveLengths == 0 .. 3

\* Polygons::smooth hands each loop a fresh result loop (ret.newPoly()).
CallSmooth(remove_length) ==
    /\ pc = "build"
    /\ ret' = [result |-> smooth(poly, remove_length, <<>>)]
    /\ call' = [op |-> "smooth", before |-> poly, remove_length |-> remove_length]
    /\ pc' = "done"
    /\ UNCHANGED <<poly, polygons, to_be_removed, copy, tree, boxes>>

NextSmooth ==
    \/ \E q \in Points : Add(q)
    \/ \E len \in RemoveLengths : CallSmooth(len)

SpecSmooth == Init /\ [][NextSmooth]_vars

SmoothDone == pc = "done" /\ call.op = "smooth"

\* The chord from a to b is shorter than len.
ShortChord(a, b, len) == shorterThen(PSub(a, b), len)

\* The points the claim's walk emits from index i on, `prev` being the point
\* emitted last: after a short chord the current point is left out, and the one
\* after it is left out too (dropNext) or emitted without a test.
RECURSIVE Emitted(_, _, _, _, _)
Emitted(path, len, i, prev, dropNext) ==
    IF i > Len(path)
    THEN <<>>
    ELSE IF ShortChord(prev, path[i], len)
         THEN IF i + 1 > Len(path)
              THEN <<>>
              ELSE IF dropNext
                   THEN Emitted(path, len, i + 2, prev, dropNext)
                   ELSE <<path[i + 1]>> \o Emitted(path, len, i + 2, path[i + 1], dropNext)
         ELSE <<path[i]>> \o Emitted(path, len, i + 1, path[i], dropNext)

Expected(path, len, dropNext) ==
    IF Len(path) = 0
    THEN <<>>
    ELSE <<path[1]>> \o Emitted(path, len, 2, path[1], dropNext)

(***************************************************************************)
(* C6 as claimed: smooth emits the first point; walking the other points,  *)
(* when the chord from the previous emitted point to the current point is  *)
(* shorter than remove_length the current point is not emitted and the     *)
(* point after it is not emitted either; every other point is emitted, in  *)
(* input order.                                                            *)
(***************************************************************************)
C6_AsClaimed ==
    SmoothDone => ret.result = Expected(call.before, call.remove_length, TRUE)

(***************************************************************************)
(* C6 amended: smooth emits the first point; walking the other points,     *)
(* when the chord from the previous emitted point to the current point is  *)
(* shorter than remove_length the current point is not emitted and the     *)
(* point after it, if there is one, is emitted with no length test; every  *)
(* other point is emitted, in input order.                                 *)
(***************************************************************************)
C6_NextPointEmitted ==
    SmoothDone => ret.result = Expected(call.before, call.remove_length, FALSE)

\* A short chord to point 1, whose successor is emitted although its own chord
\* (from point 0, the previous emitted point) is short as well.
C6_Witness ==
    /\ SmoothDone
    /\ Len(call.before) = 4
    /\ ShortChord(call.before[1], call.before[2], call.remove_length)
    /\ ShortChord(call.before[1], call.before[3], call.remove_length)
    /\ ~ShortChord(call.before[3], call.before[4], call.remove_length)
    /\ ret.result = <<call.before[1], call.before[3], call.before[4]>>

(***************************************************************************)
(* Polygons::removeSmallAreas                                              *)
(***************************************************************************)

\* INT2MM(n) is n / 1000.0: internal units (microns) per millimetre.
INT2MM_UNITS == 1000

\* Twice ClipperLib::Area(path): the shoelace sum over the closed loop, 0 for a
\* loop of fewer than 3 points.
RECURSIVE ShoelaceFrom(_, _)
ShoelaceFrom(path, i) ==
    IF i > Len(path)
    THEN 0
    ELSE LET pj == Pred(path, i)
             pi == path[i] IN
         (pj.X + pi.X) * (pj.Y - pi.Y) + ShoelaceFrom(path, i + 1)

TwiceArea(path) == IF Len(path) < 3 THEN 0 ELSE 0 - ShoelaceFrom(path, 1)

Abs(n) == IF n < 0 THEN 0 - n ELSE n

\* IsSmallArea with the scale applied once.
IsSmallAreaScaledOnce(path, minAreaSize) ==
    Abs(TwiceArea(path)) < 2 * minAreaSize * INT2MM_UNITS

\* INT2MM(INT2MM(fabs(area()))) < minAreaSize, both sides times 2 * 1000 * 1000.
IsSmallArea(path, minAreaSize) ==
    Abs(TwiceArea(path)) < 2 * minAreaSize * INT2MM_UNITS * INT2MM_UNITS

\* The loop counter is an unsigned int: a number modulo 2^32, kept as two
\* 16-bit halves.
UIntHalf == 2 ^ 16

UInt(n) == [hi |-> n \div UIntHalf, lo |-> n % UIntHalf]

\* i + 1 and i - 1 modulo 2^32.
UIntInc(i) ==
    IF i.lo + 1 < UIntHalf
    THEN [hi |-> i.hi, lo |-> i.lo + 1]
    ELSE [hi |-> (i.hi + 1) % UIntHalf, lo |-> 0]

UIntDec(i) ==
    IF i.lo > 0
    THEN [hi |-> i.hi, lo |-> i.lo - 1]
    ELSE [hi |-> (i.hi + UIntHalf - 1) % UIntHalf, lo |-> UIntHalf - 1]

\* i < n for a size n below 2^16.
UIntLess(i, n) == i.hi = 0 /\ i.lo < n

\* Polygons::remove(index): polygons.erase(polygons.begin() + index).
Erase(paths, index) ==
    [k \in 1 .. Len(paths) - 1 |-> IF k <= index THEN paths[k] ELSE paths[k + 1]]

\* The for loop with i++ alone after a removal (no i -= 1).
RECURSIVE RemoveSmallAreasLoopNoStepBack(_, _, _)
RemoveSmallAreasLoopNoStepBack(paths, i, minAreaSize) ==
    IF ~UIntLess(i, Len(paths))
    THEN paths
    ELSE IF IsSmallArea(paths[i.lo + 1], minAreaSize)
         THEN RemoveSmallAreasLoopNoStepBack(Erase(paths, i.lo), UIntInc(i), minAreaSize)
         ELSE RemoveSmallAreasLoopNoStepBack(paths, UIntInc(i), minAreaSize)

\* The for loop from counter i on: remove(i); i -= 1; then i++.
RECURSIVE RemoveSmallAreasLoop(_, _, _)
RemoveSmallAreasLoop(paths, i, minAreaSize) ==
    IF ~UIntLess(i, Len(paths))
    THEN paths
    ELSE IF IsSmallArea(paths[i.lo + 1], minAreaSize)
         THEN RemoveSmallAreasLoop(Erase(paths, i.lo), UIntInc(UIntDec(i)), minAreaSize)
         ELSE RemoveSmallAreasLoop(paths, UIntInc(i), minAreaSize)

removeSmallAreas(paths, minAreaSize) == RemoveSmallAreasLoop(paths, UInt(0), minAreaSize)

\* The most loops a shape is given.
MaxLoops == 4

Rectangle(w, h) == <<Pt(0, 0), Pt(w, 0), Pt(w, h), Pt(0, h)>>

\* The loops shapes are made of here: rectangles of 1, 2, 2, 4 and 9 mm^2, one
\* of them also clockwise, a triangle of 1/2 mm^2, and loops without area.
AreaLoops ==
    { Rectangle(w, h) : w, h \in {1000, 2000} }
        \cup { Rectangle(3000, 3000),
               Reverse(Rectangle(2000, 1000)),
               <<Pt(0, 0), Pt(1000, 0), Pt(0, 1000)>>,
               <<Pt(0, 0), Pt(3000, 3000)>>,
               <<>> }

\* minAreaSize, in mm^2.
MinAreaSizes == {0, 1, 2, 4, 5, 10}

\* Polygons::add(const PolygonRef&), for a shape of at most `most` loops.
AddPoly(path, most) ==
    /\ pc = "build"
    /\ Len(polygons) < most
    /\ polygons' = Append(polygons, path)
    /\ UNCHANGED <<pc, poly, to_be_removed, call, ret, copy, tree, boxes>>

CallRemoveSmallAreas(minAreaSize) ==
    /\ pc = "build"
    /\ polygons' = removeSmallAreas(polygons, minAreaSize)
    /\ call' = [op |-> "removeSmallAreas", before |-> polygons,
                minAreaSize |-> minAreaSize]
    /\ pc' = "done"
    /\ UNCHANGED <<poly, to_be_removed, ret, copy, tree, boxes>>

NextRemoveSmallAreas ==
    \/ \E path \in AreaLoops : AddPoly(path, MaxLoops)
    \/ \E m \in MinAreaSizes : CallRemoveSmallAreas(m)

SpecRemoveSmallAreas == Init /\ [][NextRemoveSmallAreas]_vars

RemoveSmallAreasDone == pc = "done" /\ call.op = "removeSmallAreas"

\* Twice the signed area, as the sum of the triangles of the fan from point 1.
RECURSIVE FanFrom(_, _)
FanFrom(path, i) ==
    IF i + 1 > Len(path)
    THEN 0
    ELSE Cross(path[1], path[i], path[i + 1]) + FanFrom(path, i + 1)

\* The loop's absolute area in mm^2 is not below m mm^2.
AreaNotBelow(path, m) ==
    Abs(FanFrom(path, 2)) >= 2 * m * INT2MM_UNITS * INT2MM_UNITS

\* The loops of the shape that the claim keeps, in their order.
Survivors(paths, m) ==
    LET Keep(path) == AreaNotBelow(path, m) IN SelectSeq(paths, Keep)

(***************************************************************************)
(* C7: after removeSmallAreas(minAreaSize) the shape holds exactly the     *)
(* loops of the original shape whose absolute area in mm^2 is not below    *)
(* minAreaSize, in their original order: none skipped, none twice, none    *)
(* below the threshold left.                                               *)
(***************************************************************************)
C7_ExactlyTheLargeLoops ==
    RemoveSmallAreasDone => polygons = Survivors(call.before, call.minAreaSize)

\* The first loop and the two after it are removed, the last one stays.
C7_Witness ==
    /\ RemoveSmallAreasDone
    /\ Len(call.before) = 4
    /\ \A k \in 1 .. 3 : ~AreaNotBelow(call.before[k], call.minAreaSize)
    /\ polygons = <<call.before[4]>>

\* Every loop is removed.
C7_WitnessAll ==
    /\ RemoveSmallAreasDone
    /\ Len(call.before) = 3
    /\ \A k \in 1 .. 3 : TwiceArea(call.before[k]) # 0
    /\ polygons = <<>>

(***************************************************************************)
(* Polygons::removeDegenerateVerts                                         *)
(***************************************************************************)

\* vSize(p0) of intpoint.h: the length of p0 as an integer, sqrt(vSize2(p0))
\* truncated (polygonLength sums it into an int64_t).
vSize(p0) == ISqrt(vSize2(p0))

\* The lambda isDegenerate(last, now, next).
isDegenerate(last, now, next) ==
    LET last_line == PSub(now, last)
        next_line == PSub(next, now) IN
    dot(last_line, next_line) = (0 - 1) * vSize(last_line) * vSize(next_line)

\* The while loop: pop the result's last point while it is degenerate between
\* the point before it and next.
RECURSIVE Retract(_, _)
Retract(result, next) ==
    IF Len(result) > 1 /\ isDegenerate(result[Len(result) - 1], back(result), next)
    THEN Retract(SubSeq(result, 1, Len(result) - 1), next)
    ELSE result

\* The for loop over one loop from C++ index idx on.  st is [result, tests]:
\* the cleaned loop so far and, for each vertex tested, the points it was
\* tested between and whether it was left out.
RECURSIVE DegenerateLoop(_, _, _)
DegenerateLoop(path, idx, st) ==
    IF idx >= Len(path)
    THEN st
    ELSE LET result == st.result
             last   == IF Len(result) = 0 THEN back(path) ELSE back(result) IN
         IF idx + 1 = Len(path) /\ Len(result) = 0
         THEN st
         ELSE LET next == IF idx + 1 = Len(path) THEN result[1] ELSE path[idx + 2]
                  now  == path[idx + 1]
                  deg  == isDegenerate(last, now, next)
                  test == [last |-> last, now |-> now, next |-> next, dropped |-> deg] IN
              DegenerateLoop(path, idx + 1,
                  [result |-> IF deg THEN Retract(result, next) ELSE Append(result, now),
                   tests  |-> Append(st.tests, test)])

\* for (PolygonRef poly : *this): the loops from index k on, onto out = [ret, tests].
RECURSIVE DegenerateVertsFrom(_, _, _)
DegenerateVertsFrom(paths, k, out) ==
    IF k > Len(paths)
    THEN out
    ELSE LET st == DegenerateLoop(paths[k], 0, [result |-> <<>>, tests |-> out.tests]) IN
         DegenerateVertsFrom(paths, k + 1,
             [ret   |-> IF Len(st.result) > 2 THEN Append(out.ret, st.result) ELSE out.ret,
              tests |-> st.tests])

removeDegenerateVerts(paths) ==
    DegenerateVertsFrom(paths, 1, [ret |-> <<>>, tests |-> <<>>])

RECURSIVE PointsFrom(_, _)
PointsFrom(paths, k) ==
    IF k > Len(paths) THEN 0 ELSE Len(paths[k]) + PointsFrom(paths, k + 1)

\* The number of points of all loops of a shape.
TotalPoints(paths) == PointsFrom(paths, 1)

\* Polygons::newPoly
NewPoly ==
    /\ pc = "build"
    /\ Len(polygons) < MaxLoops
    /\ polygons' = Append(polygons, <<>>)
    /\ UNCHANGED <<pc, poly, to_be_removed, call, ret, copy, tree, boxes>>

\* PolygonRef::add on the loop newPoly() returned (the shape's last loop).
AddToBack(q) ==
    /\ pc = "build"
    /\ Len(polygons) > 0
    /\ TotalPoints(polygons) < MaxLen
    /\ polygons' = [polygons EXCEPT ![Len(polygons)] = Append(@, q)]
    /\ UNCHANGED <<pc, poly, to_be_removed, call, ret, copy, tree, boxes>>

CallRemoveDegenerateVerts ==
    /\ pc = "build"
    /\ LET out == removeDegenerateVerts(polygons) IN
          ret' = [polygons |-> out.ret, tests |-> out.tests]
    /\ call' = [op |-> "removeDegenerateVerts", before |-> polygons]
    /\ pc' = "done"
    /\ UNCHANGED <<poly, polygons, to_be_removed, copy, tree, boxes>>

NextRemoveDegenerateVerts ==
    \/ NewPoly
    \/ \E q \in Points : AddToBack(q)
    \/ CallRemoveDegenerateVerts

SpecRemoveDegenerateVerts == Init /\ [][NextRemoveDegenerateVerts]_vars

RemoveDegenerateVertsDone == pc = "done" /\ call.op = "removeDegenerateVerts"

\* The vectors a and b point in exactly opposite directions: dot(a, b) is
\* -|a| |b| in exact arithmetic (a vector of length 0 included).
AntiParallel(a, b) == a.X * b.Y - a.Y * b.X = 0 /\ dot(a, b) <= 0

(***************************************************************************)
(* C8: removeDegenerateVerts leaves a vertex out if and only if the edge   *)
(* into it (from the last emitted vertex, or from the loop's last point    *)
(* when nothing is emitted yet) and the edge out of it are exactly         *)
(* anti-parallel: no vertex with another angle is left out, and a reversal *)
(* in any direction, axis-aligned or not, is left out.                     *)
(***************************************************************************)
C8_DroppedIffAntiParallel ==
    RemoveDegenerateVertsDone
        => \A k \in 1 .. Len(ret.tests) :
              LET t == ret.tests[k] IN
              t.dropped <=> AntiParallel(PSub(t.now, t.last), PSub(t.next, t.now))

\* A vertex tested between two edges that are an exact diagonal reversal.
C8_Witness ==
    /\ RemoveDegenerateVertsDone
    /\ \E k \in 1 .. Len(ret.tests) :
          LET t == ret.tests[k]
              a == PSub(t.now, t.last)
              b == PSub(t.next, t.now) IN
          /\ AntiParallel(a, b)
          /\ a.X # 0 /\ a.Y # 0 /\ b.X # 0
          /\ ~t.dropped

(***************************************************************************)
(* Polygons::remove(to_be_removed, same_distance)                          *)
(***************************************************************************)

\* The first loop over poly_rem: the index of the first point of poly_rem at
\* the smallest distance from poly_keep[0], and that distance squared (-1 and
\* index 0 before any point is seen).
RECURSIVE ClosestFrom(_, _, _, _)
ClosestFrom(poly_rem, target, point_rem_idx, best) ==
    IF point_rem_idx >= Len(poly_rem)
    THEN best
    ELSE LET dist2 == vSize2(PSub(poly_rem[point_rem_idx + 1], target)) IN
         ClosestFrom(poly_rem, target, point_rem_idx + 1,
             IF dist2 < best.smallestDist2 \/ best.smallestDist2 < 0
             THEN [closest_point_idx |-> point_rem_idx, smallestDist2 |-> dist2]
             ELSE best)

\* The second loop: every point of poly_keep is within same_distance of the
\* point of poly_rem that closest_point_idx lines up with it.
AllPointsClose(poly_rem, poly_keep, closest_point_idx, same_distance) ==
    \A point_idx \in 0 .. Len(poly_rem) - 1 :
        vSize2(PSub(poly_rem[((closest_point_idx + point_idx) % Len(poly_rem)) + 1],
                    poly_keep[point_idx + 1]))
            <= same_distance * same_distance

\* poly_rem makes poly_keep one to remove.
IsSamePolygon(poly_rem, poly_keep, same_distance) ==
    IF Len(poly_rem) # Len(poly_keep) \/ Len(poly_rem) = 0
    THEN FALSE
    ELSE LET best == ClosestFrom(poly_rem, poly_keep[1], 0,
                                 [closest_point_idx |-> 0, smallestDist2 |-> 0 - 1]) IN
         IF best.smallestDist2 > same_distance * same_distance
         THEN FALSE
         ELSE AllPointsClose(poly_rem, poly_keep, best.closest_point_idx, same_distance)

\* The body of the loop over poly_keep: should_be_removed.
ShouldBeRemoved(poly_keep, removed, same_distance) ==
    /\ Len(poly_keep) > 0
    /\ \E k \in 1 .. Len(removed) : IsSamePolygon(removed[k], poly_keep, same_distance)

remove(paths, removed, same_distance) ==
    LET Kept(poly_keep) == ~ShouldBeRemoved(poly_keep, removed, same_distance) IN
    SelectSeq(paths, Kept)

\* The most loops the two shapes are given.
MaxKept == 2

MaxRemoved == 1

\* The loops the two shapes are made of: the empty loop and every loop of 3
\* points with coordinates 0 and 1.
MatchPoints == [X : 0 .. 1, Y : 0 .. 1]

MatchLoops == {<<>>} \cup [1 .. 3 -> MatchPoints]

SameDistances == 0 .. 1

\* to_be_removed.add(const PolygonRef&)
AddRemoved(path) ==
    /\ pc = "build"
    /\ Len(to_be_removed) < MaxRemoved
    /\ to_be_removed' = Append(to_be_removed, path)
    /\ UNCHANGED <<pc, poly, polygons, call, ret, copy, tree, boxes>>

CallRemove(same_distance) ==
    /\ pc = "build"
    /\ ret' = [polygons |-> remove(polygons, to_be_removed, same_distance)]
    /\ call' = [op |-> "remove", before |-> polygons, same_distance |-> same_distance]
    /\ pc' = "done"
    /\ UNCHANGED <<poly, polygons, to_be_removed, copy, tree, boxes>>

NextRemove ==
    \/ \E path \in MatchLoops : AddPoly(path, MaxKept)
    \/ \E path \in MatchLoops : AddRemoved(path)
    \/ \E d \in SameDistances : CallRemove(d)

SpecRemove == Init /\ [][NextRemove]_vars

RemoveDone == pc = "done" /\ call.op = "remove"

\* a and b are within distance d of each other.
Within(a, b, d) == vSize2(PSub(a, b)) <= d * d

\* candidate is a cyclic rotation of path, from some starting index, with every
\* vertex within d of the vertex it corresponds to.
IsRotationWithin(candidate, path, d) ==
    /\ Len(candidate) = Len(path)
    /\ \E k \in 0 .. Len(path) - 1 :
          \A i \in 1 .. Len(path) : Within(Rotate(candidate, k)[i], path[i], d)

\* Some loop of the shape is such a rotation of path.
HasRotationWithin(paths, path, d) ==
    \E k \in 1 .. Len(paths) : IsRotationWithin(paths[k], path, d)

(***************************************************************************)
(* C9: remove(to_be_removed, same_distance) removes a loop whenever        *)
(* to_be_removed holds a cyclic rotation of it, from any starting index,   *)
(* with every corresponding vertex pair within same_distance (loops with   *)
(* repeated or closely spaced vertices included), and a candidate with a   *)
(* corresponding pair farther apart is no match: the loops with points     *)
(* that are returned are exactly those without such a rotation.            *)
(***************************************************************************)
C9_RemovedIffRotation ==
    RemoveDone
        => LET HasPoints(path) == Len(path) > 0
               Unmatched(path) ==
                   /\ Len(path) > 0
                   /\ ~HasRotationWithin(to_be_removed, path, call.same_distance) IN
           SelectSeq(ret.polygons, HasPoints) = SelectSeq(call.before, Unmatched)

\* A loop with a repeated vertex is returned although to_be_removed holds it,
\* started from another vertex.
C9_Witness ==
    /\ RemoveDone
    /\ call.same_distance = 0
    /\ Len(call.before) = 1 /\ Len(to_be_removed) = 1
    /\ Len(call.before[1]) = 3
    /\ \E k \in 1 .. 2 : to_be_removed[1] = Rotate(call.before[1], k)
    /\ ret.polygons = call.before

(***************************************************************************)
(* C10: remove(to_be_removed, same_distance) also removes empty polygons:  *)
(* the shape it returns has no loop with zero points.                      *)
(***************************************************************************)
C10_NoEmptyLoopReturned ==
    RemoveDone => \A k \in 1 .. Len(ret.polygons) : Len(ret.polygons[k]) > 0

\* An empty loop of the shape is in the shape returned.
C10_Witness ==
    /\ RemoveDone
    /\ \E k \in 1 .. Len(call.before) : call.before[k] = <<>>
    /\ \E k \in 1 .. Len(ret.polygons) : ret.polygons[k] = <<>>

(***************************************************************************)
(* Queries on loops and shapes that may be empty: polygonLength, min, max, *)
(* inside.                                                                 *)
(***************************************************************************)

\* POINT_MAX and POINT_MIN are the limits of ClipperLib::cInt (a 64-bit
\* integer).  They are only ever compared with coordinates and with each other;
\* here they are the limits of the integers of the model, and every coordinate
\* lies strictly between them.
POINT_MAX == 2147483647

POINT_MIN == -2147483647

\* The for loop of polygonLength from C++ index n on.
RECURSIVE LengthFrom(_, _, _, _)
LengthFrom(path, n, p0, length) ==
    IF n >= Len(path)
    THEN length
    ELSE LengthFrom(path, n + 1, path[n + 1], length + vSize(PSub(p0, path[n + 1])))

\* What reading (*polygon)[polygon->size() - 1] does before the loop.  In an
\* empty vector size() - 1 is the largest unsigned value and the read is out of
\* range (oob): undefined behaviour, which traps or yields a point that the
\* loop, having nothing to run over, never uses.
ReadLast(path) ==
    IF Len(path) = 0
    THEN {[trap |-> TRUE, oob |-> TRUE, p0 |-> Pt(0, 0)],
          [trap |-> FALSE, oob |-> TRUE, p0 |-> Pt(0, 0)]}
    ELSE {[trap |-> FALSE, oob |-> FALSE, p0 |-> path[Len(path)]]}

\* PolygonRef::polygonLength: every way the call can end, [trap, oob, length].
polygonLength(path) ==
    { [trap   |-> r.trap,
       oob    |-> r.oob,
       length |-> IF r.trap THEN 0 ELSE LengthFrom(path, 0, r.p0, 0)] :
      r \in ReadLast(path) }

\* Polygons::polygonLength from loop i (C++ index) on, having got as far as acc.
RECURSIVE PolygonsLengthFrom(_, _, _)
PolygonsLengthFrom(paths, i, acc) ==
    IF acc.trap \/ i >= Len(paths)
    THEN {acc}
    ELSE UNION { PolygonsLengthFrom(paths, i + 1,
                     [trap   |-> r.trap,
                      oob    |-> acc.oob \/ r.oob,
                      length |-> IF r.trap
                                 THEN acc.length
                                 ELSE LengthFrom(paths[i + 1], 0, r.p0, acc.length)]) :
                 r \in ReadLast(paths[i + 1]) }

PolygonsPolygonLength(paths) ==
    PolygonsLengthFrom(paths, 0, [trap |-> FALSE, oob |-> FALSE, length |-> 0])

\* PolygonRef::min: the range-for from point n (TLA+ index) on.
RECURSIVE MinFrom(_, _, _)
MinFrom(path, n, r) ==
    IF n > Len(path)
    THEN r
    ELSE MinFrom(path, n + 1, Pt(Min(r.X, path[n].X), Min(r.Y, path[n].Y)))

PolygonMin(path) == MinFrom(path, 1, Pt(POINT_MAX, POINT_MAX))

\* PolygonRef::max
RECURSIVE MaxFrom(_, _, _)
MaxFrom(path, n, r) ==
    IF n > Len(path)
    THEN r
    ELSE MaxFrom(path, n + 1, Pt(Max(r.X, path[n].X), Max(r.Y, path[n].Y)))

PolygonMax(path) == MaxFrom(path, 1, Pt(POINT_MIN, POINT_MIN))

\* thiss[k].polygonLength() on loop k of the shape (Polygons::operator[] hands
\* out a PolygonRef to it).
CallPolygonLength(k) ==
    /\ pc = "build"
    /\ \E o \in polygonLength(polygons[k]) :
          /\ ret' = [length |-> o.length, oob |-> o.oob]
          /\ pc' = IF o.trap THEN "trapped" ELSE "done"
    /\ call' = [op |-> "polygonLength", path |-> polygons[k]]
    /\ UNCHANGED <<poly, polygons, to_be_removed, copy, tree, boxes>>

CallPolygonsPolygonLength ==
    /\ pc = "build"
    /\ \E o \in PolygonsPolygonLength(polygons) :
          /\ ret' = [length |-> o.length, oob |-> o.oob]
          /\ pc' = IF o.trap THEN "trapped" ELSE "done"
    /\ call' = [op |-> "Polygons::polygonLength"]
    /\ UNCHANGED <<poly, polygons, to_be_removed, copy, tree, boxes>>

CallMinMax(k) ==
    /\ pc = "build"
    /\ ret' = [min |-> PolygonMin(polygons[k]), max |-> PolygonMax(polygons[k])]
    /\ call' = [op |-> "minmax", path |-> polygons[k]]
    /\ pc' = "done"
    /\ UNCHANGED <<poly, polygons, to_be_removed, copy, tree, boxes>>

CallInsideOf(k, p, border_result) ==
    /\ pc = "build"
    /\ ret' = [inside |-> inside(polygons[k], p, border_result)]
    /\ call' = [op |-> "inside", path |-> polygons[k], p |-> p,
                border_result |-> border_result]
    /\ pc' = "done"
    /\ UNCHANGED <<poly, polygons, to_be_removed, copy, tree, boxes>>

NextQueries ==
    \/ \E path \in MatchLoops : AddPoly(path, MaxKept)
    \/ \E k \in 1 .. Len(polygons) : CallPolygonLength(k)
    \/ CallPolygonsPolygonLength
    \/ \E k \in 1 .. Len(polygons) : CallMinMax(k)
    \/ \E k \in 1 .. Len(polygons), p \in MatchPoints, border_result \in BOOLEAN :
          CallInsideOf(k, p, border_result)

SpecQueries == Init /\ [][NextQueries]_vars

\* A query has ended, by returning or in a trap.
QueryEnded == pc \in {"done", "trapped"}

\* The length of the closed loop: the sum of the lengths of its edges.
RECURSIVE EdgeLengths(_, _)
EdgeLengths(path, i) ==
    IF i > Len(path)
    THEN 0
    ELSE vSize(PSub(path[i], Pred(path, i))) + EdgeLengths(path, i + 1)

RECURSIVE LoopLengths(_, _)
LoopLengths(paths, k) ==
    IF k > Len(paths) THEN 0 ELSE EdgeLengths(paths[k], 1) + LoopLengths(paths, k + 1)

HasEmptyLoop(paths) == \E k \in 1 .. Len(paths) : Len(paths[k]) = 0

(***************************************************************************)
(* C11: queries on an empty loop or on a shape with an empty loop never    *)
(* fail and never read an element out of range: polygonLength of a loop    *)
(* with zero points is 0 and in a shape such a loop adds 0 to the length,  *)
(* inside is false for both values of border_result, and min and max are   *)
(* the sentinel pair.                                                      *)
(***************************************************************************)
C11_EmptyQueriesSafe ==
    QueryEnded
        => /\ (call.op = "polygonLength" /\ Len(call.path) = 0)
                => pc = "done" /\ ~ret.oob /\ ret.length = 0
           /\ (call.op = "Polygons::polygonLength" /\ HasEmptyLoop(polygons))
                => pc = "done" /\ ~ret.oob /\ ret.length = LoopLengths(polygons, 1)
           /\ (call.op = "inside" /\ Len(call.path) = 0)
                => pc = "done" /\ ret.inside = FALSE
           /\ (call.op = "minmax" /\ Len(call.path) = 0)
                => /\ pc = "done"
                   /\ ret.min = Pt(POINT_MAX, POINT_MAX)
                   /\ ret.max = Pt(POINT_MIN, POINT_MIN)

\* polygonLength of an empty loop returned 0 after a read out of range.
C11_Witness ==
    /\ pc = "done"
    /\ call.op = "polygonLength"
    /\ Len(call.path) = 0
    /\ ret.oob
    /\ ret.length = 0

(***************************************************************************)
(* Polygon: a PolygonRef that owns its points.  The original Polygon's     *)
(* member is `poly`; `copy` is a second Polygon constructed from it, with  *)
(* its own member copy.poly and, in copy.polygon, the Polygon whose member *)
(* its base class's pointer `polygon` points at.                           *)
(***************************************************************************)

\* The points loops are made of here.
CopyPoints == {Pt(0, 0), Pt(1, 1)}

Translations == {Pt(1, 1), Pt(0 - 1, 0 - 1)}

\* The most calls made on the two Polygons after the copy is constructed.
MaxMutations == 3

\* Polygon(const PolygonRef& other): the base is constructed on the new
\* object's own member, which is then assigned other's points.
PolygonFromRef(other) == [polygon |-> "copy", poly |-> other]

\* Polygon(const Polygon& other): the class declares none, so the compiler
\* generates it: the base PolygonRef is copied (its pointer, which points at
\* other's member) and the member is copied.
PolygonFromPolygon(other) == [polygon |-> "original", poly |-> other]

\* The member that the pointer of the Polygon `via` points at.
PointsAt(via) == IF via = "original" THEN "original" ELSE copy.polygon

\* *polygon, read through the Polygon `via`.
View(via) == IF PointsAt(via) = "original" THEN poly ELSE copy.poly

\* PolygonRef::remove(index)
RemovePoint(path, index) ==
    IF index < Len(path)
    THEN SubSeq(path, 1, index) \o SubSeq(path, index + 2, Len(path))
    ELSE path

\* PolygonRef::translate
Translate(path, translation) ==
    [i \in 1 .. Len(path) |->
        Pt(path[i].X + translation.X, path[i].Y + translation.Y)]

ConstructFromPolygon ==
    /\ pc = "build"
    /\ copy' = PolygonFromPolygon(poly)
    /\ call' = [op |-> "Polygon(const Polygon&)", via |-> "copy", n |-> 0,
                value |-> [original |-> poly, copy |-> poly]]
    /\ pc' = "copied"
    /\ UNCHANGED <<poly, polygons, to_be_removed, ret, tree, boxes>>

ConstructFromRef ==
    /\ pc = "build"
    /\ copy' = PolygonFromRef(poly)
    /\ call' = [op |-> "Polygon(const PolygonRef&)", via |-> "copy", n |-> 0,
                value |-> [original |-> poly, copy |-> poly]]
    /\ pc' = "copied"
    /\ UNCHANGED <<poly, polygons, to_be_removed, ret, tree, boxes>>

\* A mutating method of PolygonRef, called on the Polygon `via`: the points its
\* pointer points at become `points`.  call.value keeps what each of the two
\* Polygons would hold if each owned its points (for `via`, `owned` after the
\* call), and call.n the number of such calls so far.
Mutate(via, op, points, owned) ==
    /\ pc = "copied"
    /\ call.n < MaxMutations
    /\ IF PointsAt(via) = "original"
       THEN poly' = points /\ copy' = copy
       ELSE poly' = poly /\ copy' = [copy EXCEPT !.poly = points]
    /\ call' = [op |-> op, via |-> via, n |-> call.n + 1,
                value |-> [call.value EXCEPT ![via] = owned]]
    /\ UNCHANGED <<pc, polygons, to_be_removed, ret, tree, boxes>>

MutateAdd(via, q) ==
    /\ pc = "copied"
    /\ Len(View(via)) < MaxLen
    /\ Len(call.value[via]) < MaxLen
    /\ Mutate(via, "add", Append(View(via), q), Append(call.value[via], q))

MutateRemove(via, index) ==
    /\ pc = "copied"
    /\ index < Len(View(via))
    /\ Mutate(via, "remove", RemovePoint(View(via), index),
              RemovePoint(call.value[via], index))

MutateClear(via) ==
    /\ pc = "copied"
    /\ Mutate(via, "clear", <<>>, <<>>)

MutateReverse(via) ==
    /\ pc = "copied"
    /\ Mutate(via, "reverse", Reverse(View(via)), Reverse(call.value[via]))

MutateTranslate(via, translation) ==
    /\ pc = "copied"
    /\ \A path \in {View(via), call.value[via]} :
          \A i \in 1 .. Len(path) : Translate(path, translation)[i] \in CopyPoints
    /\ Mutate(via, "translate", Translate(View(via), translation),
              Translate(call.value[via], translation))

Polygon == {"original", "copy"}

NextCopy ==
    \/ \E q \in CopyPoints : Add(q)
    \/ ConstructFromPolygon
    \/ ConstructFromRef
    \/ \E via \in Polygon, q \in CopyPoints : MutateAdd(via, q)
    \/ \E via \in Polygon, index \in 0 .. MaxLen - 1 : MutateRemove(via, index)
    \/ \E via \in Polygon : MutateClear(via)
    \/ \E via \in Polygon : MutateReverse(via)
    \/ \E via \in Polygon, translation \in Translations : MutateTranslate(via, translation)

SpecCopy == Init /\ [][NextCopy]_vars

(***************************************************************************)
(* C12: a Polygon created as a copy of another Polygon or of a view owns   *)
(* its points: whatever is then done through the copy (add, remove, clear, *)
(* reverse, translate) leaves the original's points as they were, whatever *)
(* is done through the original leaves the copy's, and a read through the  *)
(* copy sees the copy's own points.                                        *)
(***************************************************************************)
C12_ValueLike ==
    pc = "copied"
        => /\ View("original") = call.value.original
           /\ View("copy") = call.value.copy
           /\ View("copy") = copy.poly

\* A Polygon copied from a Polygon; a point added through the copy is in the
\* original, and not in the copy's own member.
C12_Witness ==
    /\ pc = "copied"
    /\ copy.polygon = "original"
    /\ call.op = "add" /\ call.via = "copy"
    /\ Len(poly) = Len(call.value.original) + 1
    /\ Len(copy.poly) < Len(View("copy"))

(***************************************************************************)
(* Polygons::splitIntoParts: the walk over the contour tree                *)
(* (_processPolyTreeNode).  The ClipperLib::PolyTree is a sequence of      *)
(* nodes [Parent, Contour]; Parent is the index of the parent node, 0 for  *)
(* the root (which has no contour).  A node's Childs are its children in   *)
(* the order they were added.                                              *)
(***************************************************************************)

\* The most nodes below the root.
MaxNodes == 5

\* The nodes of the tree t below the root.
Nodes(t) == 1 .. Len(t)

\* node->Childs, as a sequence of node indices.
Childs(t, node) ==
    LET IsChild(i) == t[i].Parent = node IN
    SelectSeq([i \in 1 .. Len(t) |-> i], IsChild)

\* child->Contour
Contour(t, node) == t[node].Contour

RECURSIVE ProcessChilds(_, _, _)
RECURSIVE ProcessHolesNoIslands(_, _, _, _)
RECURSIVE ProcessHoles(_, _, _, _)

\* _processPolyTreeNode(node, ret): ret after the call, having been parts.
ProcessPolyTreeNode(t, node, parts) == ProcessChilds(t, Childs(t, node), parts)

\* ProcessHoles without the recursive call on the holes.
ProcessHolesNoIslands(t, holes, part, parts) ==
    IF holes = <<>>
    THEN [polygons |-> part, ret |-> parts]
    ELSE ProcessHolesNoIslands(t, Tail(holes),
                               Append(part, Contour(t, Head(holes))), parts)

\* The inner loop, over the Childs of child still to come: each one's contour
\* is added to polygons (part) and the walk recurses into it.
ProcessHoles(t, holes, part, parts) ==
    IF holes = <<>>
    THEN [polygons |-> part, ret |-> parts]
    ELSE ProcessHoles(t, Tail(holes),
                      Append(part, Contour(t, Head(holes))),
                      ProcessPolyTreeNode(t, Head(holes), parts))

\* The outer loop, over the Childs of node still to come: a new Polygons with
\* the child's contour, the inner loop, then ret.push_back(polygons).
ProcessChilds(t, childs, parts) ==
    IF childs = <<>>
    THEN parts
    ELSE LET child == Head(childs)
             o     == ProcessHoles(t, Childs(t, child), <<Contour(t, child)>>, parts) IN
         ProcessChilds(t, Tail(childs), Append(o.ret, o.polygons))

\* The engine returns a tree node by node: a node is added as the last child of
\* the root or of a node there is.  Its contour is a loop no other node has.
AddNode(parent) ==
    /\ pc = "build"
    /\ Len(tree) < MaxNodes
    /\ tree' = Append(tree, [Parent |-> parent,
                             Contour |-> Rectangle(Len(tree) + 1, Len(tree) + 1)])
    /\ UNCHANGED <<pc, poly, polygons, to_be_removed, call, ret, copy, boxes>>

\* _processPolyTreeNode(&resultPolyTree, ret) with ret empty, as splitIntoParts
\* calls it.
CallProcessPolyTreeNode ==
    /\ pc = "build"
    /\ ret' = ProcessPolyTreeNode(tree, 0, <<>>)
    /\ call' = [op |-> "splitIntoParts"]
    /\ pc' = "done"
    /\ UNCHANGED <<poly, polygons, to_be_removed, copy, tree, boxes>>

NextSplitIntoParts ==
    \/ \E parent \in 0 .. Len(tree) : AddNode(parent)
    \/ CallProcessPolyTreeNode

SpecSplitIntoParts == Init /\ [][NextSplitIntoParts]_vars

SplitIntoPartsDone == pc = "done" /\ call.op = "splitIntoParts"

\* The depth of a node below the root: 1 for the root's children.
RECURSIVE Depth(_, _)
Depth(t, node) == IF node = 0 THEN 0 ELSE 1 + Depth(t, t[node].Parent)

\* The nodes at an outer depth.
OuterNodes(t) == {i \in Nodes(t) : Depth(t, i) % 2 = 1}

\* The part of an outer node: its contour, then its children's in child order.
PartOf(t, node) ==
    <<Contour(t, node)>>
        \o [k \in 1 .. Len(Childs(t, node)) |-> Contour(t, Childs(t, node)[k])]

\* The places (part, loop) of the parts where the contour is.
PlacesOf(parts, contour) ==
    {pl \in (1 .. Len(parts)) \X (1 .. MaxNodes) :
        pl[2] <= Len(parts[pl[1]]) /\ parts[pl[1]][pl[2]] = contour}

(***************************************************************************)
(* C13: for every contour tree, the contour of each node below the root is *)
(* in exactly one returned part; there is exactly one part for each node   *)
(* at an outer (odd) depth; loop 0 of that part is the node's contour and  *)
(* loops 1..k are the contours of its direct children in child order; the  *)
(* contours of islands inside holes are in no enclosing part and have      *)
(* parts of their own.                                                     *)
(***************************************************************************)
C13_OnePartPerOuterNode ==
    SplitIntoPartsDone
        => /\ \A i \in Nodes(tree) :
                 Cardinality(PlacesOf(ret, Contour(tree, i))) = 1
           /\ Len(ret) = Cardinality(OuterNodes(tree))
           /\ \A i \in OuterNodes(tree) :
                 \E k \in 1 .. Len(ret) :
                    /\ ret[k] = PartOf(tree, i)
                    /\ \A j \in 1 .. Len(ret) : ret[j][1] = Contour(tree, i) => j = k

\* An outline with two holes, an island in one of them: two parts, the
\* island's of one loop and the outline's of three.
C13_Witness ==
    /\ SplitIntoPartsDone
    /\ \E i \in Nodes(tree) : Depth(tree, i) = 3
    /\ \E i \in OuterNodes(tree) : Len(Childs(tree, i)) = 2
    /\ \E k, j \in 1 .. Len(ret) : Len(ret[k]) = 1 /\ Len(ret[j]) = 3

(***************************************************************************)
(* AABB: the axis aligned boundary box, a record [min, max] of two Points. *)
(***************************************************************************)

\* AABB(): the default constructor's initialiser list.
AABBDefault == [min |-> Pt(POINT_MIN, POINT_MIN), max |-> Pt(POINT_MIN, POINT_MIN)]

\* The body of the two loops of calculate for the point q.
Grow(box, q) ==
    [min |-> Pt(IF box.min.X > q.X THEN q.X ELSE box.min.X,
                IF box.min.Y > q.Y THEN q.Y ELSE box.min.Y),
     max |-> Pt(IF box.max.X < q.X THEN q.X ELSE box.max.X,
                IF box.max.Y < q.Y THEN q.Y ELSE box.max.Y)]

\* The loops of calculate from point j of loop i on (C++ indices).
RECURSIVE CalculateFrom(_, _, _, _)
CalculateFrom(polys, i, j, box) ==
    IF i >= Len(polys)
    THEN box
    ELSE IF j >= Len(polys[i + 1])
         THEN CalculateFrom(polys, i + 1, 0, box)
         ELSE CalculateFrom(polys, i, j + 1, Grow(box, polys[i + 1][j + 1]))

\* AABB::calculate(polys): the box after the call.
calculate(polys) ==
    CalculateFrom(polys, 0, 0,
                  [min |-> Pt(POINT_MAX, POINT_MAX), max |-> Pt(POINT_MIN, POINT_MIN)])

\* AABB::hit(other), called on box.
hit(box, other) ==
    IF box.max.X < other.min.X THEN FALSE
    ELSE IF box.min.X > other.max.X THEN FALSE
    ELSE IF box.max.Y < other.min.Y THEN FALSE
    ELSE IF box.min.Y > other.max.Y THEN FALSE
    ELSE TRUE

\* The most boxes constructed.
MaxBoxes == 2

\* The shapes boxes are calculated from: up to 2 loops, each empty, of one point
\* of the grid, or of two points with coordinates 0 and 1.
BoxLoops == {<<>>} \cup [1 .. 1 -> Points] \cup [1 .. 2 -> MatchPoints]

BoxShapes == UNION {[1 .. n -> BoxLoops] : n \in 0 .. 2}

\* AABB()
ConstructAABB ==
    /\ pc = "build"
    /\ Len(boxes) < MaxBoxes
    /\ boxes' = Append(boxes, AABBDefault)
    /\ UNCHANGED <<pc, poly, polygons, to_be_removed, call, ret, copy, tree>>

\* AABB(Polygons polys): the same initialiser list, then calculate(polys).
ConstructAABBFrom(polys) ==
    /\ pc = "build"
    /\ Len(boxes) < MaxBoxes
    /\ boxes' = Append(boxes, calculate(polys))
    /\ UNCHANGED <<pc, poly, polygons, to_be_removed, call, ret, copy, tree>>

\* boxes[k].calculate(polys)
Calculate(k, polys) ==
    /\ pc = "build"
    /\ boxes' = [boxes EXCEPT ![k] = calculate(polys)]
    /\ UNCHANGED <<pc, poly, polygons, to_be_removed, call, ret, copy, tree>>

\* boxes[i].hit(boxes[j])
CallHit(i, j) ==
    /\ pc = "build"
    /\ ret' = hit(boxes[i], boxes[j])
    /\ call' = [op |-> "hit", box |-> boxes[i], other |-> boxes[j]]
    /\ pc' = "done"
    /\ UNCHANGED <<poly, polygons, to_be_removed, copy, tree, boxes>>

NextAABB ==
    \/ ConstructAABB
    \/ \E polys \in BoxShapes : ConstructAABBFrom(polys)
    \/ \E k \in 1 .. Len(boxes), polys \in BoxShapes : Calculate(k, polys)
    \/ \E i, j \in 1 .. Len(boxes) : CallHit(i, j)

SpecAABB == Init /\ [][NextAABB]_vars

HitDone == pc = "done" /\ call.op = "hit"

\* The box is as the default constructor leaves it (every coordinate of a
\* point lies strictly between POINT_MIN and POINT_MAX).
IsUncalculated(box) == box.min.X = POINT_MIN /\ box.max.X = POINT_MIN

\* The box is as calculate leaves it for a shape with no points.
IsCalculatedEmpty(box) == box.min.X = POINT_MAX /\ box.max.X = POINT_MIN

\* The box was calculated from at least one point.
IsCalculatedFromPoints(box) == ~IsUncalculated(box) /\ ~IsCalculatedEmpty(box)

\* The closed ranges lo1 .. hi1 and lo2 .. hi2 have a number in common.
RangesOverlap(lo1, hi1, lo2, hi2) == (lo1 .. hi1) \cap (lo2 .. hi2) # {}

(***************************************************************************)
(* C14: hit is false whenever one of the two boxes is uncalculated         *)
(* (default-constructed) or calculated from a shape with no points; for    *)
(* two boxes each calculated from at least one point, hit is true iff      *)
(* their X-ranges overlap and their Y-ranges overlap, and hit is           *)
(* symmetric.                                                              *)
(***************************************************************************)
C14_HitOnlyCalculatedBoxes ==
    HitDone
        => LET a == call.box
               b == call.other IN
           /\ (~IsCalculatedFromPoints(a) \/ ~IsCalculatedFromPoints(b)) => ret = FALSE
           /\ (IsCalculatedFromPoints(a) /\ IsCalculatedFromPoints(b))
                => /\ a.min.X <= a.max.X /\ a.min.Y <= a.max.Y
                   /\ ret <=> /\ RangesOverlap(a.min.X, a.max.X, b.min.X, b.max.X)
                              /\ RangesOverlap(a.min.Y, a.max.Y, b.min.Y, b.max.Y)
                   /\ ret = hit(b, a)

\* Two default-constructed boxes hit each other.
C14_Witness ==
    /\ HitDone
    /\ Len(boxes) = 2
    /\ IsUncalculated(call.box)
    /\ IsUncalculated(call.other)
    /\ ret = TRUE

==========================================================================
